---- MODULE Spec2Model ----
(***************************************************************************)
(* Life-Certificates: the registration flow (ParticipantService.Register), *)
(* the verification flow (VerificationService.Verify) and the three        *)
(* stores they read and write (participants, fr_identities,                *)
(* life_certificate), as a state machine of concurrent request handlers.   *)
(*                                                                         *)
(* Strings the code trims (strings.TrimSpace) are sequences of one-letter  *)
(* strings, so that trimming is computed.  Optional values (pointers to    *)
(* float64 or string) are sets with at most one element: {} is nil.        *)
(* Distances are in hundredths (0.6 is 60); similarities are percents.     *)
(***************************************************************************)
EXTENDS Integers, Sequences, FiniteSets, TLC

VARIABLES
    participants,   \* table participants: rows of domain.Participant
    frIdentities,   \* table fr_identities: rows of domain.FRIdentity
    ledger,         \* table life_certificate: rows of domain.LifeCertificate
    clock,          \* the latest value read from time.Now()
    nextPid,        \* number of the next registration's uuid pair
    attempts,       \* number of verification attempts that found their participant
    faultBudget,    \* store calls that may still return an error
    checker,        \* the liveness.Checker wired into the service
    frcore,         \* the answers the FR Core engine may give
    serial,         \* TRUE: the caller issues one request at a time
    ticking,        \* TRUE: the clock advances between readings
    ties,           \* how the store orders rows of equal verified_at
    callers,        \* the inputs the callers may send
    req,            \* the request handlers: position and local variables
    last            \* the response most recently returned to a caller

vars == <<participants, frIdentities, ledger, clock, nextPid, attempts,
          faultBudget, checker, frcore, serial, ticking, ties, callers, req, last>>

config == <<checker, frcore, serial, ticking, ties, callers>>

----------------------------------------------------------------------------
(* Bounds of the model *)

MaxRegister == 2
MaxVerify == 2
MaxClock == 1
MaxFaults == 1

Reqs == {1, 2}

(* Program constants: the default thresholds of config.Load *)
DistanceThreshold == 60
SimilarityThreshold == 75

----------------------------------------------------------------------------
(* Strings *)

RECURSIVE TrimLeft(_)
TrimLeft(s) == IF s # <<>> /\ Head(s) = " " THEN TrimLeft(Tail(s)) ELSE s

RECURSIVE TrimRight(_)
TrimRight(s) ==
    IF s # <<>> /\ s[Len(s)] = " " THEN TrimRight(SubSeq(s, 1, Len(s) - 1)) ELSE s

(* A variant of TrimSpace that trims nothing *)
KeepSpace(s) == s

TrimSpace(s) == TrimRight(TrimLeft(s))

Digit == <<"1", "2", "3", "4", "5", "6", "7", "8", "9">>

(* uuid.NewString(): the n-th registration draws a participant id and a    *)
(* candidate label, the n-th attempt a certificate id; all are distinct.   *)
Pid(n) == <<"p", Digit[n]>>
CandidateLabel(n) == <<"l", Digit[n]>>
CertID(n) == <<"c", Digit[n]>>

----------------------------------------------------------------------------
(* Inputs and the answers of the two ports *)

NIKInputs == {<<>>, <<" ">>, <<"1">>, <<" ", "1">>, <<"2">>}
NameInputs == {<<>>, <<"a">>}
ImageInputs == {<<>>, <<"i">>}
IDInputs ==
    {<<>>, <<" ">>} \cup {Pid(n) : n \in 1..MaxRegister}
                    \cup {<<" ">> \o Pid(n) : n \in 1..MaxRegister}

(* Every input the validations and lookups distinguish *)
AnyCaller ==
    [niks |-> NIKInputs, names |-> NameInputs, images |-> ImageInputs,
     ids |-> IDInputs]

(* Well-formed inputs only: two national IDs, one of them also written     *)
(* with a leading blank, and the ids of the participants                   *)
ValidCaller ==
    [niks |-> {<<"1">>, <<" ", "1">>, <<"2">>}, names |-> {<<"a">>},
     images |-> {<<"i">>}, ids |-> {Pid(n) : n \in 1..MaxRegister}]

(* frcore.UploadResponse: the engine echoes the requested value "echo",    *)
(* leaves the field empty or blank, or answers with a value of its own.    *)
UploadField(kind, requested) ==
    CASE kind = "echo" -> requested
      [] kind = "empty" -> <<>>
      [] kind = "blank" -> <<" ">>
      [] OTHER -> <<kind>>

UploadResponses(label, externalRef) ==
    {[ID |-> UploadField(i, <<>>),
      Label |-> UploadField(l, label),
      ExternalRef |-> UploadField(e, externalRef)] :
        i \in frcore.ids, l \in frcore.labels, e \in frcore.externalRefs}

(* frcore.RecognizeResponse *)
RecognizeResponses ==
    {[Label |-> l, Similarity |-> s[1], Distance |-> s[2]] :
        l \in frcore.recognized, s \in frcore.scores}

(* Every answer the decision distinguishes: at, below and above the       *)
(* thresholds, with and without a distance.                                *)
AllScores ==
    {SimilarityThreshold - 1, SimilarityThreshold}
        \X {{}, {DistanceThreshold}, {DistanceThreshold + 1}}

AllRecognized ==
    {<<>>, <<"X">>, <<" ", "X">>} \cup {CandidateLabel(n) : n \in 1..MaxRegister}

(* A variant of the NoopChecker that passes whether enabled or not *)
NoopAlwaysPass(enabled) == [passed |-> TRUE, reason |-> "ok", err |-> FALSE]

(* liveness.NoopChecker.Evaluate *)
NoopEvaluate(enabled) ==
    IF ~enabled
    THEN [passed |-> FALSE, reason |-> "liveness_disabled", err |-> FALSE]
    ELSE [passed |-> TRUE, reason |-> "ok", err |-> FALSE]

(* liveness.Checker.Evaluate: what the wired checker may answer *)
Evaluate ==
    CASE checker = "noop_enabled" -> {NoopEvaluate(TRUE)}
      [] checker = "noop_disabled" -> {NoopEvaluate(FALSE)}
      [] OTHER ->
            {[passed |-> TRUE, reason |-> "ok", err |-> FALSE],
             [passed |-> FALSE, reason |-> "spoof", err |-> FALSE],
             [passed |-> FALSE, reason |-> "", err |-> TRUE]}

(* A store call returns an error (FALSE) only while the fault budget lasts *)
StoreOutcomes == IF faultBudget > 0 THEN {TRUE, FALSE} ELSE {TRUE}

(* time.Now(): successive readings do not decrease *)
Now == {t \in clock..(clock + 1) : t = clock \/ (ticking /\ t <= MaxClock)}

----------------------------------------------------------------------------
(* Repositories *)

GetByID(id) == {p \in participants : p.id = id}
GetByNIK(nik) == {p \in participants : p.nik = nik}
GetByLabel(label) == {i \in frIdentities : i.label = label}

(* participants: primary key id, unique indexes on nik, fr_label and       *)
(* fr_external_ref                                                          *)
ParticipantUnique(rows, p) ==
    \A q \in rows : /\ q.id # p.id
                    /\ q.nik # p.nik
                    /\ q.frLabel # p.frLabel
                    /\ q.frExternalRef # p.frExternalRef

(* A variant of Create that overwrites the row of an existing label *)
FRIdentityUpsert(rows, identity) ==
    {i \in rows : i.label # identity.label} \cup {identity}

(* frIdentityRepository.Create: INSERT ... ON CONFLICT DO NOTHING *)
FRIdentityCreate(rows, identity) ==
    IF \E i \in rows : i.label = identity.label THEN rows ELSE rows \cup {identity}

(* A variant of Update without the unique index on nik *)
UpdateUnchecked(rows, p) == TRUE

(* participantRepository.Update: nik and name of the row with the id; the *)
(* unique index on nik rejects the value of another row.                   *)
UpdateUnique(rows, p) == \A q \in rows : q.id # p.id => q.nik # p.nik

(* A variant of Update without the WHERE clause *)
ParticipantUpdateAll(rows, p) ==
    {[q EXCEPT !.nik = p.nik, !.name = p.name] : q \in rows}

ParticipantUpdate(rows, p) ==
    {IF q.id = p.id THEN [q EXCEPT !.nik = p.nik, !.name = p.name] ELSE q :
        q \in rows}

(* participantRepository.Delete *)
ParticipantDelete(rows, id) == {p \in rows : p.id # id}

(* frIdentityRepository.DeleteByParticipantID *)
FRIdentityDeleteByParticipantID(rows, participantID) ==
    {i \in rows : i.participantID # participantID}

(* A variant of DeleteByParticipant that empties the table *)
CertificateDeleteAll(rows, participantID) == {}

(* A variant of DeleteByParticipant that deletes nothing *)
CertificateKeep(rows, participantID) == rows

(* lifeCertificateRepository.DeleteByParticipant *)
CertificateDeleteByParticipant(rows, participantID) ==
    {c \in rows : c.participantID # participantID}

(* lifeCertificateRepository.GetLatestByParticipant: ORDER BY verified_at  *)
(* DESC, first row.  SQL leaves the order of rows of equal verified_at to  *)
(* the store; a store resolves it the same way each time, by the rows'     *)
(* position.                                                               *)
GetLatestByParticipant(participantID) ==
    LET rows == {c \in ledger : c.participantID = participantID}
        top == {c \in rows : \A d \in rows : d.verifiedAt <= c.verifiedAt}
    IN {c \in top : \A d \in top : IF ties = "newest" THEN d.seq <= c.seq
                                                      ELSE c.seq <= d.seq}

----------------------------------------------------------------------------
(* The decision of Verify *)

(* A variant of distanceOk with an exclusive comparison *)
DistanceBelow(distance) == \E d \in distance : d < DistanceThreshold

DistanceOk(distance) == \E d \in distance : d <= DistanceThreshold
SimilarityOk(similarity) == similarity >= SimilarityThreshold

(* A variant of the alias condition that insists on a distance *)
AliasNeedsDistance(similarity, distance) ==
    SimilarityOk(similarity) /\ DistanceOk(distance)

(* A variant of the alias condition that looks at the similarity alone *)
AliasBySimilarity(similarity, distance) == SimilarityOk(similarity)

AliasAllowed(similarity, distance) ==
    SimilarityOk(similarity) /\ (distance = {} \/ DistanceOk(distance))

(* A variant of the decision that trusts the scores alone *)
DecideByScores(matchLabel, similarity, distance) ==
    IF DistanceOk(distance) \/ (distance = {} /\ SimilarityOk(similarity))
    THEN "VALID" ELSE "INVALID"

Decide(matchLabel, similarity, distance) ==
    IF matchLabel /\ (DistanceOk(distance)
                      \/ (~DistanceOk(distance) /\ distance = {}
                          /\ SimilarityOk(similarity)))
    THEN "VALID" ELSE "INVALID"

----------------------------------------------------------------------------
(* Request handlers *)

(* A handler that is not serving a request.  Besides the local variables   *)
(* of the two flows a handler carries the error or status it returns, and  *)
(* a record of what the call did: the port calls it made and the tables    *)
(* it inserted into.                                                        *)
Idle ==
    [op |-> "none", pc |-> "idle", err |-> "",
     pid |-> <<>>, nik |-> <<>>, name |-> <<>>,
     frRef |-> <<>>, frExternal |-> <<>>,
     attempt |-> 0, now |-> 0, notes |-> {},
     label |-> <<>>, similarity |-> {}, distance |-> {},
     lookup |-> "", matchLabel |-> FALSE, status |-> "",
     uploadCalls |-> 0, recognizeCalls |-> 0, wrote |-> {},
     livenessCalls |-> 0, row |-> {}, verifiedAt |-> {}, uploaded |-> {},
     image |-> <<>>, recognized |-> {}]

MayStart(r) ==
    /\ req[r].pc = "idle"
    /\ serial => r = 1

Fail(call, e) == [call EXCEPT !.pc = "done", !.err = e]

(* The handler returns `call` to its caller *)
Return(r, call) ==
    /\ req' = [req EXCEPT ![r] = Idle]
    /\ last' = [call EXCEPT !.pc = "done"]

----------------------------------------------------------------------------
(* ParticipantService.Register *)

(* Validation, the duplicate check by national ID and the two uuids *)
RegisterStart(r) ==
    /\ MayStart(r)
    /\ nextPid <= MaxRegister
    /\ \E nik \in callers.niks, name \in callers.names, image \in callers.images,
          ok \in StoreOutcomes :
         LET call == [Idle EXCEPT !.op = "Register", !.nik = nik, !.name = name,
                                  !.image = image]
             valid == /\ TrimSpace(nik) # <<>>
                      /\ TrimSpace(name) # <<>>
                      /\ Len(image) # 0
             fresh == valid /\ ok /\ GetByNIK(nik) = {}
         IN
         /\ \/ /\ ~fresh
               /\ Return(r, Fail(call,
                     IF TrimSpace(nik) = <<>> THEN "nik is required"
                     ELSE IF TrimSpace(name) = <<>> THEN "name is required"
                     ELSE IF Len(image) = 0 THEN "image is required"
                     ELSE IF ~ok THEN "get participant by nik"
                     ELSE "ErrParticipantExists"))
            \/ /\ fresh
               /\ req' = [req EXCEPT ![r] =
                            [call EXCEPT !.pc = "r_upload",
                                         !.pid = Pid(nextPid),
                                         !.frRef = CandidateLabel(nextPid),
                                         !.frExternal = Pid(nextPid)]]
               /\ UNCHANGED last
         /\ faultBudget' = IF valid /\ ~ok THEN faultBudget - 1 ELSE faultBudget
         /\ nextPid' = IF fresh THEN nextPid + 1 ELSE nextPid
    /\ UNCHANGED <<participants, frIdentities, ledger, clock, attempts, config>>

(* The label and external reference Register keeps after frClient.UploadFace *)
UploadedLabel(resp, frLabel) ==
    IF TrimSpace(resp.Label) # <<>> THEN resp.Label
    ELSE IF TrimSpace(resp.ID) # <<>> THEN resp.ID
    ELSE frLabel

UploadedExternalRef(resp, frExternalRef) ==
    IF TrimSpace(resp.ExternalRef) # <<>> THEN resp.ExternalRef ELSE frExternalRef

(* A variant of the upload step that goes on with the requested label and  *)
(* reference when UploadFace fails                                         *)
RegisterUploadLenient(r) ==
    /\ req[r].pc = "r_upload"
    /\ req' = [req EXCEPT ![r] = [@ EXCEPT !.pc = "r_participant",
                                           !.uploadCalls = @ + 1]]
    /\ UNCHANGED <<participants, frIdentities, ledger, clock, nextPid, attempts,
                   faultBudget, config, last>>

(* frClient.UploadFace *)
RegisterUpload(r) ==
    /\ req[r].pc = "r_upload"
    /\ LET call == [req[r] EXCEPT !.uploadCalls = @ + 1] IN
       \/ Return(r, Fail(call, "frcore upload"))
       \/ /\ \E resp \in UploadResponses(call.frRef, call.frExternal) :
               req' = [req EXCEPT ![r] =
                         [call EXCEPT !.pc = "r_participant",
                                      !.uploaded = {resp},
                                      !.frRef = UploadedLabel(resp, call.frRef),
                                      !.frExternal =
                                          UploadedExternalRef(resp, call.frExternal)]]
          /\ UNCHANGED last
    /\ UNCHANGED <<participants, frIdentities, ledger, clock, nextPid, attempts,
                   faultBudget, config>>

(* participants.Create *)
RegisterCreateParticipant(r) ==
    /\ req[r].pc = "r_participant"
    /\ \E ok \in StoreOutcomes :
         LET p == [id |-> req[r].pid,
                   nik |-> TrimSpace(req[r].nik),
                   name |-> TrimSpace(req[r].name),
                   frLabel |-> req[r].frRef,
                   frExternalRef |-> req[r].frExternal]
             created == ok /\ ParticipantUnique(participants, p)
         IN
         /\ \/ /\ ~created
               /\ Return(r, Fail(req[r],
                     IF ~ok THEN "create participant"
                     ELSE "create participant: duplicate key"))
               /\ UNCHANGED participants
            \/ /\ created
               /\ req' = [req EXCEPT ![r] =
                            [@ EXCEPT !.pc = "r_identity",
                                      !.wrote = @ \cup {"participants"}]]
               /\ participants' = participants \cup {p}
               /\ UNCHANGED last
         /\ faultBudget' = IF ok THEN faultBudget ELSE faultBudget - 1
    /\ UNCHANGED <<frIdentities, ledger, clock, nextPid, attempts, config>>

(* frIdentities.Create, and the RegisterOutput *)
RegisterCreateIdentity(r) ==
    /\ req[r].pc = "r_identity"
    /\ \E ok \in StoreOutcomes :
         LET identity == [label |-> req[r].frRef, participantID |-> req[r].pid,
                          externalRef |-> req[r].frExternal]
             rows == FRIdentityCreate(frIdentities, identity)
         IN
         /\ Return(r, IF ~ok THEN Fail(req[r], "create fr identity")
                      ELSE [req[r] EXCEPT !.wrote =
                               IF rows # frIdentities
                               THEN @ \cup {"fr_identities"} ELSE @])
         /\ frIdentities' = IF ok THEN rows ELSE frIdentities
         /\ faultBudget' = IF ok THEN faultBudget ELSE faultBudget - 1
    /\ UNCHANGED <<participants, ledger, clock, nextPid, attempts, config>>

----------------------------------------------------------------------------
(* VerificationService.Verify *)

(* Validation and participants.GetByID *)
VerifyStart(r) ==
    /\ MayStart(r)
    /\ attempts < MaxVerify
    /\ \E id \in callers.ids, image \in callers.images, ok \in StoreOutcomes :
         LET participantID == TrimSpace(id)
             call == [Idle EXCEPT !.op = "Verify", !.pid = participantID,
                                  !.image = image]
             valid == participantID # <<>> /\ Len(image) # 0
             found == valid /\ ok /\ GetByID(participantID) # {}
         IN
         /\ \/ /\ ~found
               /\ Return(r, Fail(call,
                     IF participantID = <<>> THEN "participant_id is required"
                     ELSE IF Len(image) = 0 THEN "image payload is required"
                     ELSE IF ~ok THEN "get participant by id"
                     ELSE "ErrParticipantNotFound"))
            \/ /\ found
               /\ \E participant \in GetByID(participantID) :
                    req' = [req EXCEPT ![r] =
                              [call EXCEPT !.pc = "v_liveness",
                                           !.pid = participant.id,
                                           !.frExternal = participant.frExternalRef,
                                           !.attempt = attempts + 1]]
               /\ UNCHANGED last
         /\ faultBudget' = IF valid /\ ~ok THEN faultBudget - 1 ELSE faultBudget
         /\ attempts' = IF found THEN attempts + 1 ELSE attempts
    /\ UNCHANGED <<participants, frIdentities, ledger, clock, nextPid, config>>

(* time.Now() and livenessChecker.Evaluate *)
VerifyLiveness(r) ==
    /\ req[r].pc = "v_liveness"
    /\ \E now \in Now, verdict \in Evaluate :
         LET call == [req[r] EXCEPT !.now = now, !.livenessCalls = @ + 1] IN
         /\ clock' = now
         /\ \/ /\ verdict.err
               /\ Return(r, Fail(call, "liveness evaluation failed"))
            \/ /\ ~verdict.err
               /\ req' = [req EXCEPT ![r] =
                            IF ~verdict.passed
                            THEN [call EXCEPT !.pc = "v_review",
                                              !.notes = {verdict.reason}]
                            ELSE [call EXCEPT !.pc = "v_recognize"]]
               /\ UNCHANGED last
    /\ UNCHANGED <<participants, frIdentities, ledger, nextPid, attempts,
                   faultBudget, config>>

(* The position of a new row in life_certificate: rows are told apart by  *)
(* the order in which certificates.Create inserted them.                   *)
NextSeq ==
    IF ledger = {} THEN 1
    ELSE 1 + (CHOOSE n \in {row.seq : row \in ledger} :
                 \A row \in ledger : row.seq <= n)

(* A variant of the REVIEW record that drops the liveness reason *)
ReviewWithoutNotes(call) ==
    [id |-> CertID(call.attempt),
     seq |-> NextSeq,
     participantID |-> call.pid,
     status |-> "REVIEW",
     distance |-> {}, similarity |-> {},
     verifiedAt |-> call.now,
     notes |-> {}]

(* The record of a failed liveness check *)
ReviewCertificate(call) ==
    [id |-> CertID(call.attempt),
     seq |-> NextSeq,
     participantID |-> call.pid,
     status |-> "REVIEW",
     distance |-> {}, similarity |-> {},
     verifiedAt |-> call.now,
     notes |-> call.notes]

(* The REVIEW outcome: certificates.Create and the VerifyOutput *)
VerifyReview(r) ==
    /\ req[r].pc = "v_review"
    /\ \E ok \in StoreOutcomes :
         LET record == ReviewCertificate(req[r]) IN
         /\ Return(r, IF ~ok THEN Fail(req[r], "create life certificate")
                      ELSE [req[r] EXCEPT !.status = "REVIEW",
                                          !.wrote = @ \cup {"life_certificate"}])
         /\ ledger' = IF ok THEN ledger \cup {record} ELSE ledger
         /\ faultBudget' = IF ok THEN faultBudget ELSE faultBudget - 1
    /\ UNCHANGED <<participants, frIdentities, clock, nextPid, attempts, config>>

(* frClient.Recognize *)
VerifyRecognize(r) ==
    /\ req[r].pc = "v_recognize"
    /\ LET call == [req[r] EXCEPT !.recognizeCalls = @ + 1] IN
       \/ Return(r, Fail(call, "frcore recognize"))
       \/ /\ \E resp \in RecognizeResponses :
               req' = [req EXCEPT ![r] =
                         [call EXCEPT !.pc = IF TrimSpace(resp.Label) # <<>>
                                             THEN "v_lookup" ELSE "v_record",
                                      !.recognized =
                                          {[Similarity |-> resp.Similarity,
                                            Distance |-> resp.Distance]},
                                      !.label = TrimSpace(resp.Label),
                                      !.similarity = {resp.Similarity},
                                      !.distance = resp.Distance]]
          /\ UNCHANGED last
    /\ UNCHANGED <<participants, frIdentities, ledger, clock, nextPid, attempts,
                   faultBudget, config>>

(* Identity resolution: frIdentities.GetByLabel *)
VerifyLookup(r) ==
    /\ req[r].pc = "v_lookup"
    /\ \E ok \in StoreOutcomes :
         LET similarity == CHOOSE x \in req[r].similarity : TRUE IN
         /\ \/ /\ ~ok
               /\ Return(r, Fail(req[r], "get fr identity by label"))
            \/ /\ ok
               /\ \E identity \in GetByLabel(req[r].label) :
                    req' = [req EXCEPT ![r] =
                              [@ EXCEPT !.pc = "v_record",
                                        !.lookup = "found",
                                        !.matchLabel =
                                            identity.participantID = req[r].pid]]
               /\ UNCHANGED last
            \/ /\ ok
               /\ GetByLabel(req[r].label) = {}
               /\ req' = [req EXCEPT ![r] =
                            [@ EXCEPT !.pc = IF AliasAllowed(similarity,
                                                             req[r].distance)
                                             THEN "v_alias" ELSE "v_record",
                                      !.lookup = "unseen"]]
               /\ UNCHANGED last
         /\ faultBudget' = IF ok THEN faultBudget ELSE faultBudget - 1
    /\ UNCHANGED <<participants, frIdentities, ledger, clock, nextPid, attempts,
                   config>>

(* A variant of the alias branch that matches only if the row was created *)
MatchIfCreated(created) == created

(* matchLabel after the alias branch: the result of frIdentities.Create is *)
(* discarded, the attempt counts as matched whether or not a row was       *)
(* created.                                                                *)
AliasMatch(created) == TRUE

(* The new alias: frIdentities.Create, its error discarded *)
VerifyAlias(r) ==
    /\ req[r].pc = "v_alias"
    /\ \E ok \in StoreOutcomes :
         LET identity == [label |-> req[r].label, participantID |-> req[r].pid,
                          externalRef |-> req[r].frExternal]
             rows == IF ok THEN FRIdentityCreate(frIdentities, identity)
                     ELSE frIdentities
         IN
         /\ req' = [req EXCEPT ![r] =
                      [@ EXCEPT !.pc = "v_record",
                                !.matchLabel = AliasMatch(rows # frIdentities),
                                !.wrote = IF rows # frIdentities
                                          THEN @ \cup {"fr_identities"} ELSE @]]
         /\ frIdentities' = rows
         /\ faultBudget' = IF ok THEN faultBudget ELSE faultBudget - 1
    /\ UNCHANGED <<participants, ledger, clock, nextPid, attempts, config, last>>

(* A variant of the record that always stores INVALID *)
CertificateInvalid(call, status) ==
    [id |-> CertID(call.attempt),
     seq |-> NextSeq,
     participantID |-> call.pid,
     status |-> "INVALID",
     distance |-> call.distance,
     similarity |-> call.similarity,
     verifiedAt |-> call.now,
     notes |-> {}]

(* A variant of the record that stores the distance in tenths *)
CertificateRounded(call, status) ==
    [id |-> CertID(call.attempt),
     seq |-> NextSeq,
     participantID |-> call.pid,
     status |-> status,
     distance |-> {(d \div 10) * 10 : d \in call.distance},
     similarity |-> call.similarity,
     verifiedAt |-> call.now,
     notes |-> {}]

(* The record of an attempt that reached recognition *)
Certificate(call, status) ==
    [id |-> CertID(call.attempt),
     seq |-> NextSeq,
     participantID |-> call.pid,
     status |-> status,
     distance |-> call.distance,
     similarity |-> call.similarity,
     verifiedAt |-> call.now,
     notes |-> {}]

(* The status decision, certificates.Create and the VerifyOutput *)
VerifyRecord(r) ==
    /\ req[r].pc = "v_record"
    /\ \E ok \in StoreOutcomes :
         LET similarity == CHOOSE x \in req[r].similarity : TRUE
             status == Decide(req[r].matchLabel, similarity, req[r].distance)
             record == Certificate(req[r], status)
         IN
         /\ Return(r, IF ~ok THEN Fail(req[r], "create life certificate")
                      ELSE [req[r] EXCEPT !.status = status,
                                          !.wrote = @ \cup {"life_certificate"}])
         /\ ledger' = IF ok THEN ledger \cup {record} ELSE ledger
         /\ faultBudget' = IF ok THEN faultBudget ELSE faultBudget - 1
    /\ UNCHANGED <<participants, frIdentities, clock, nextPid, attempts, config>>

----------------------------------------------------------------------------
(* ParticipantService.Update *)

(* The values Update writes: the trimmed input, or the stored value when   *)
(* the input is blank                                                      *)
NewNIK(call) ==
    IF TrimSpace(call.nik) = <<>>
    THEN (CHOOSE p \in call.row : TRUE).nik ELSE TrimSpace(call.nik)

NewName(call) ==
    IF TrimSpace(call.name) = <<>>
    THEN (CHOOSE p \in call.row : TRUE).name ELSE TrimSpace(call.name)

(* participants.GetByID *)
UpdateStart(r) ==
    /\ MayStart(r)
    /\ \E id \in callers.ids, nik \in callers.niks, name \in callers.names,
          ok \in StoreOutcomes :
         LET call == [Idle EXCEPT !.op = "Update", !.pid = id,
                                  !.nik = nik, !.name = name]
             found == ok /\ GetByID(id) # {}
         IN
         /\ \/ /\ ~found
               /\ Return(r, Fail(call, IF ~ok THEN "get participant by id"
                                       ELSE "ErrParticipantNotFound"))
            \/ /\ found
               /\ \E participant \in GetByID(id) :
                    LET read == [call EXCEPT !.row = {participant}] IN
                    req' = [req EXCEPT ![r] =
                              [read EXCEPT !.pc =
                                  IF NewNIK(read) # participant.nik
                                  THEN "u_check" ELSE "u_write"]]
               /\ UNCHANGED last
         /\ faultBudget' = IF ok THEN faultBudget ELSE faultBudget - 1
    /\ UNCHANGED <<participants, frIdentities, ledger, clock, nextPid, attempts,
                   config>>

(* participants.GetByNIK for a changed national ID *)
UpdateCheck(r) ==
    /\ req[r].pc = "u_check"
    /\ \E ok \in StoreOutcomes :
         LET taken == \E existing \in GetByNIK(NewNIK(req[r])) :
                         existing.id # req[r].pid
         IN
         /\ \/ /\ ~ok \/ taken
               /\ Return(r, Fail(req[r], IF ~ok THEN "get participant by nik"
                                         ELSE "ErrParticipantExists"))
            \/ /\ ok /\ ~taken
               /\ req' = [req EXCEPT ![r] = [@ EXCEPT !.pc = "u_write"]]
               /\ UNCHANGED last
         /\ faultBudget' = IF ok THEN faultBudget ELSE faultBudget - 1
    /\ UNCHANGED <<participants, frIdentities, ledger, clock, nextPid, attempts,
                   config>>

(* participants.Update, and the participant returned *)
UpdateWrite(r) ==
    /\ req[r].pc = "u_write"
    /\ \E ok \in StoreOutcomes :
         LET p == [id |-> req[r].pid, nik |-> NewNIK(req[r]),
                   name |-> NewName(req[r])]
             updated == ok /\ UpdateUnique(participants, p)
             rows == ParticipantUpdate(participants, p)
         IN
         /\ Return(r, IF ~ok THEN Fail(req[r], "update participant")
                      ELSE IF ~updated
                           THEN Fail(req[r], "update participant: duplicate key")
                      ELSE [req[r] EXCEPT !.wrote =
                               IF rows # participants
                               THEN @ \cup {"participants"} ELSE @])
         /\ participants' = IF updated THEN rows ELSE participants
         /\ faultBudget' = IF ok THEN faultBudget ELSE faultBudget - 1
    /\ UNCHANGED <<frIdentities, ledger, clock, nextPid, attempts, config>>

----------------------------------------------------------------------------
(* ParticipantService.Delete *)

(* participants.GetByID *)
DeleteStart(r) ==
    /\ MayStart(r)
    /\ \E id \in callers.ids, ok \in StoreOutcomes :
         LET call == [Idle EXCEPT !.op = "Delete", !.pid = id]
             found == ok /\ GetByID(id) # {}
         IN
         /\ \/ /\ ~found
               /\ Return(r, Fail(call, IF ~ok THEN "get participant by id"
                                       ELSE "ErrParticipantNotFound"))
            \/ /\ found
               /\ req' = [req EXCEPT ![r] =
                            [call EXCEPT !.pc = "d_certificates"]]
               /\ UNCHANGED last
         /\ faultBudget' = IF ok THEN faultBudget ELSE faultBudget - 1
    /\ UNCHANGED <<participants, frIdentities, ledger, clock, nextPid, attempts,
                   config>>

(* certificates.DeleteByParticipant *)
DeleteCertificates(r) ==
    /\ req[r].pc = "d_certificates"
    /\ \E ok \in StoreOutcomes :
         LET rows == CertificateDeleteByParticipant(ledger, req[r].pid) IN
         /\ \/ /\ ~ok
               /\ Return(r, Fail(req[r], "delete life certificates"))
               /\ UNCHANGED ledger
            \/ /\ ok
               /\ req' = [req EXCEPT ![r] =
                            [@ EXCEPT !.pc = "d_identities",
                                      !.wrote = IF rows # ledger
                                                THEN @ \cup {"life_certificate"}
                                                ELSE @]]
               /\ ledger' = rows
               /\ UNCHANGED last
         /\ faultBudget' = IF ok THEN faultBudget ELSE faultBudget - 1
    /\ UNCHANGED <<participants, frIdentities, clock, nextPid, attempts, config>>

(* frIdentities.DeleteByParticipantID *)
DeleteIdentities(r) ==
    /\ req[r].pc = "d_identities"
    /\ \E ok \in StoreOutcomes :
         LET rows == FRIdentityDeleteByParticipantID(frIdentities, req[r].pid) IN
         /\ \/ /\ ~ok
               /\ Return(r, Fail(req[r], "delete fr identity"))
               /\ UNCHANGED frIdentities
            \/ /\ ok
               /\ req' = [req EXCEPT ![r] =
                            [@ EXCEPT !.pc = "d_participant",
                                      !.wrote = IF rows # frIdentities
                                                THEN @ \cup {"fr_identities"}
                                                ELSE @]]
               /\ frIdentities' = rows
               /\ UNCHANGED last
         /\ faultBudget' = IF ok THEN faultBudget ELSE faultBudget - 1
    /\ UNCHANGED <<participants, ledger, clock, nextPid, attempts, config>>

(* participants.Delete *)
DeleteParticipant(r) ==
    /\ req[r].pc = "d_participant"
    /\ \E ok \in StoreOutcomes :
         LET rows == ParticipantDelete(participants, req[r].pid) IN
         /\ Return(r, IF ~ok THEN Fail(req[r], "delete participant")
                      ELSE [req[r] EXCEPT !.wrote =
                               IF rows # participants
                               THEN @ \cup {"participants"} ELSE @])
         /\ participants' = IF ok THEN rows ELSE participants
         /\ faultBudget' = IF ok THEN faultBudget ELSE faultBudget - 1
    /\ UNCHANGED <<frIdentities, ledger, clock, nextPid, attempts, config>>

----------------------------------------------------------------------------
(* VerificationService.LatestStatus *)

(* Validation and participants.GetByID *)
StatusStart(r) ==
    /\ MayStart(r)
    /\ \E id \in callers.ids, ok \in StoreOutcomes :
         LET participantID == TrimSpace(id)
             call == [Idle EXCEPT !.op = "LatestStatus", !.pid = participantID]
             valid == participantID # <<>>
             found == valid /\ ok /\ GetByID(participantID) # {}
         IN
         /\ \/ /\ ~found
               /\ Return(r, Fail(call,
                     IF ~valid THEN "participant_id is required"
                     ELSE IF ~ok THEN "get participant by id"
                     ELSE "ErrParticipantNotFound"))
            \/ /\ found
               /\ req' = [req EXCEPT ![r] = [call EXCEPT !.pc = "s_read"]]
               /\ UNCHANGED last
         /\ faultBudget' = IF valid /\ ~ok THEN faultBudget - 1 ELSE faultBudget
    /\ UNCHANGED <<participants, frIdentities, ledger, clock, nextPid, attempts,
                   config>>

(* A variant of the StatusOutput that reports a row only to the first of   *)
(* two successive lookups                                                  *)
StatusOutputOnce(call, records) ==
    IF records = {} \/ last.op = "LatestStatus" THEN call
    ELSE LET record == CHOOSE c \in records : TRUE IN
         [call EXCEPT !.status = record.status,
                      !.distance = record.distance,
                      !.similarity = record.similarity,
                      !.verifiedAt = {record.verifiedAt}]

(* A variant of the StatusOutput that reports INVALID when there is no row *)
StatusOutputInvalid(call, records) ==
    IF records = {} THEN [call EXCEPT !.status = "INVALID"]
    ELSE LET record == CHOOSE c \in records : TRUE IN
         [call EXCEPT !.status = record.status,
                      !.distance = record.distance,
                      !.similarity = record.similarity,
                      !.verifiedAt = {record.verifiedAt}]

(* The StatusOutput of a ledger row, or of no row *)
StatusOutput(call, records) ==
    IF records = {} THEN call
    ELSE LET record == CHOOSE c \in records : TRUE IN
         [call EXCEPT !.status = record.status,
                      !.distance = record.distance,
                      !.similarity = record.similarity,
                      !.verifiedAt = {record.verifiedAt}]

(* certificates.GetLatestByParticipant, and the StatusOutput *)
StatusRead(r) ==
    /\ req[r].pc = "s_read"
    /\ \E ok \in StoreOutcomes :
         /\ Return(r, IF ~ok THEN Fail(req[r], "get latest life certificate")
                      ELSE StatusOutput(req[r],
                                        GetLatestByParticipant(req[r].pid)))
         /\ faultBudget' = IF ok THEN faultBudget ELSE faultBudget - 1
    /\ UNCHANGED <<participants, frIdentities, ledger, clock, nextPid, attempts,
                   config>>

----------------------------------------------------------------------------
(* Specifications *)

Next ==
    \/ \E r \in Reqs : RegisterStart(r)
    \/ \E r \in Reqs : RegisterUpload(r)
    \/ \E r \in Reqs : RegisterCreateParticipant(r)
    \/ \E r \in Reqs : RegisterCreateIdentity(r)
    \/ \E r \in Reqs : VerifyStart(r)
    \/ \E r \in Reqs : VerifyLiveness(r)
    \/ \E r \in Reqs : VerifyReview(r)
    \/ \E r \in Reqs : VerifyRecognize(r)
    \/ \E r \in Reqs : VerifyLookup(r)
    \/ \E r \in Reqs : VerifyAlias(r)
    \/ \E r \in Reqs : VerifyRecord(r)

(* An empty database, no request in flight *)
Start ==
    /\ participants = {}
    /\ frIdentities = {}
    /\ ledger = {}
    /\ clock = 0
    /\ nextPid = 1
    /\ attempts = 0
    /\ req = [r \in Reqs |-> Idle]
    /\ last = Idle

(* The engine echoes the requested label or answers with its own "X"; it  *)
(* recognizes any label with a passing or a failing score.                 *)
Engine ==
    [ids |-> {"empty"}, labels |-> {"echo", "X"}, externalRefs |-> {"echo"},
     recognized |-> {<<"X">>} \cup {CandidateLabel(n) : n \in 1..MaxRegister},
     scores |-> {<<SimilarityThreshold, {}>>,
                 <<SimilarityThreshold - 1, {DistanceThreshold + 1}>>}]

(* Concurrent requests over a store that does not fail *)
Init ==
    /\ Start
    /\ callers = AnyCaller
    /\ faultBudget = 0
    /\ checker = "port"
    /\ serial = FALSE
    /\ ticking = FALSE
    /\ ties = "newest"
    /\ frcore = Engine

Spec == Init /\ [][Next]_vars

(* One request at a time over a store that does not fail; every score and  *)
(* every label the decision distinguishes.                                 *)
InitSeq ==
    /\ Start
    /\ callers = AnyCaller
    /\ faultBudget = 0
    /\ checker = "port"
    /\ serial = TRUE
    /\ ticking = TRUE
    /\ ties = "newest"
    /\ frcore = [Engine EXCEPT !.recognized = AllRecognized, !.scores = AllScores]

SpecSeq == InitSeq /\ [][Next]_vars

(* One request at a time over a store that may fail *)
InitFault ==
    /\ Start
    /\ callers = AnyCaller
    /\ faultBudget = MaxFaults
    /\ checker = "port"
    /\ serial = TRUE
    /\ ticking = FALSE
    /\ ties = "newest"
    /\ frcore = Engine

SpecFault == InitFault /\ [][Next]_vars

(* The administration of participants: concurrent Register, Update and    *)
(* Delete over a store that does not fail                                  *)
NextAdmin ==
    \/ \E r \in Reqs : RegisterStart(r)
    \/ \E r \in Reqs : RegisterUpload(r)
    \/ \E r \in Reqs : RegisterCreateParticipant(r)
    \/ \E r \in Reqs : RegisterCreateIdentity(r)
    \/ \E r \in Reqs : UpdateStart(r)
    \/ \E r \in Reqs : UpdateCheck(r)
    \/ \E r \in Reqs : UpdateWrite(r)
    \/ \E r \in Reqs : DeleteStart(r)
    \/ \E r \in Reqs : DeleteCertificates(r)
    \/ \E r \in Reqs : DeleteIdentities(r)
    \/ \E r \in Reqs : DeleteParticipant(r)

InitAdmin ==
    /\ Start
    /\ callers = ValidCaller
    /\ faultBudget = 0
    /\ checker = "port"
    /\ serial = FALSE
    /\ ticking = FALSE
    /\ ties = "newest"
    /\ frcore = Engine

SpecAdmin == InitAdmin /\ [][NextAdmin]_vars

(* The life of a participant: Register, Verify, LatestStatus and Delete *)
NextLife ==
    \/ Next
    \/ \E r \in Reqs : DeleteStart(r)
    \/ \E r \in Reqs : DeleteCertificates(r)
    \/ \E r \in Reqs : DeleteIdentities(r)
    \/ \E r \in Reqs : DeleteParticipant(r)
    \/ \E r \in Reqs : StatusStart(r)
    \/ \E r \in Reqs : StatusRead(r)

(* The engine echoes the requested label and recognizes the label "X"     *)
(* with a passing score                                                    *)
EngineLife ==
    [Engine EXCEPT !.labels = {"echo"}, !.recognized = {<<"X">>},
                   !.scores = {<<SimilarityThreshold, {}>>}]

(* Two national IDs *)
LifeCaller == [ValidCaller EXCEPT !.niks = {<<"1">>, <<"2">>}]

(* Concurrent requests, a clock that advances *)
InitLife ==
    /\ Start
    /\ callers = LifeCaller
    /\ faultBudget = 0
    /\ checker = "port"
    /\ serial = FALSE
    /\ ticking = TRUE
    /\ ties = "newest"
    /\ frcore = EngineLife

SpecLife == InitLife /\ [][NextLife]_vars

(* One request at a time, a clock that advances *)
InitLifeSeq ==
    /\ Start
    /\ callers = ValidCaller
    /\ faultBudget = 0
    /\ checker = "port"
    /\ serial = TRUE
    /\ ticking = TRUE
    /\ ties \in {"newest", "oldest"}
    /\ frcore = EngineLife

SpecLifeSeq == InitLifeSeq /\ [][NextLife]_vars

(* One request at a time with an engine that answers an upload with the   *)
(* requested label and reference, with its own, or with none               *)
EngineRemote ==
    [EngineLife EXCEPT !.labels = {"echo", "X", "blank"},
                       !.externalRefs = {"echo", "E", "empty"}]

InitRemote ==
    /\ Start
    /\ callers = LifeCaller
    /\ faultBudget = 0
    /\ checker = "port"
    /\ serial = TRUE
    /\ ticking = FALSE
    /\ ties = "newest"
    /\ frcore = EngineRemote

SpecRemote == InitRemote /\ [][Next]_vars

(* One request at a time with the NoopChecker wired in, enabled or not *)
InitNoop ==
    /\ Start
    /\ callers = AnyCaller
    /\ faultBudget = 0
    /\ checker \in {"noop_enabled", "noop_disabled"}
    /\ serial = TRUE
    /\ ticking = FALSE
    /\ ties = "newest"
    /\ frcore = Engine

SpecNoop == InitNoop /\ [][Next]_vars

(* Metadata edits: two national IDs, or none, and two names *)
EditCaller ==
    [ValidCaller EXCEPT !.niks = {<<>>, <<"1">>, <<"2">>},
                        !.names = {<<"a">>, <<"b">>}]

InitEdit ==
    /\ Start
    /\ callers = EditCaller
    /\ faultBudget = 0
    /\ checker = "port"
    /\ serial = FALSE
    /\ ticking = FALSE
    /\ ties = "newest"
    /\ frcore = EngineLife

SpecEdit == InitEdit /\ [][NextAdmin]_vars

(* Concurrent requests with an engine that binds the requested label or   *)
(* its own label "X", and recognizes "X"                                   *)
EngineOwner == [EngineLife EXCEPT !.labels = {"echo", "X"}]

InitOwner ==
    /\ Start
    /\ callers = LifeCaller
    /\ faultBudget = 0
    /\ checker = "port"
    /\ serial = FALSE
    /\ ticking = FALSE
    /\ ties = "newest"
    /\ frcore = EngineOwner

SpecOwner == InitOwner /\ [][NextLife]_vars

----------------------------------------------------------------------------
(* Properties of Verify *)

(* The ledger entries of the attempt `call` *)
Entries(call) ==
    IF call.attempt = 0 THEN {}
    ELSE {row \in ledger : row.id = CertID(call.attempt)}

(* `last` is a Verify call that got an answer from the Recognition Port    *)
(* and returned a status                                                   *)
Recognized ==
    /\ last.op = "Verify"
    /\ last.err = ""
    /\ last.recognizeCalls = 1

(* C1: a Verify call that reaches the decision records and returns VALID   *)
(* if and only if matchLabel is true and either a distance was returned    *)
(* and is at most the distance threshold, or no distance was returned and  *)
(* the similarity is at least the similarity threshold; otherwise it       *)
(* records and returns INVALID.                                            *)
C1_StatusDecision ==
    Recognized =>
        LET valid ==
              /\ last.matchLabel
              /\ \/ /\ last.distance # {}
                    /\ \A d \in last.distance : d <= DistanceThreshold
                 \/ /\ last.distance = {}
                    /\ \A x \in last.similarity : x >= SimilarityThreshold
        IN
        /\ last.status = IF valid THEN "VALID" ELSE "INVALID"
        /\ \E row \in Entries(last) : row.status = last.status

(* A matched attempt whose distance is exactly the threshold is VALID *)
C1_Witness ==
    /\ Recognized
    /\ last.matchLabel
    /\ last.distance = {DistanceThreshold}
    /\ last.similarity = {SimilarityThreshold - 1}
    /\ last.status = "VALID"

(* C2: a Verify call whose liveness check reports failure returns REVIEW   *)
(* without distance and similarity, the ledger holds exactly one entry of  *)
(* the attempt, for the participant, REVIEW, without scores and with the   *)
(* liveness reason as notes, and the Recognition Port was not called.      *)
C2_LivenessFailure ==
    (last.op = "Verify" /\ last.notes # {}) =>
        /\ last.err = ""
        /\ last.status = "REVIEW"
        /\ last.distance = {}
        /\ last.similarity = {}
        /\ last.recognizeCalls = 0
        /\ Cardinality(Entries(last)) = 1
        /\ \A row \in Entries(last) :
              /\ row.participantID = last.pid
              /\ row.status = "REVIEW"
              /\ row.distance = {}
              /\ row.similarity = {}
              /\ row.notes = last.notes
              /\ row.notes = {"spoof"}

C2_Witness ==
    /\ last.op = "Verify"
    /\ last.notes = {"spoof"}
    /\ last.status = "REVIEW"
    /\ \E row \in ledger : row.notes = {"spoof"} /\ row.participantID = last.pid

(* C3: a Verify call by P whose recognized label is found in the mapping   *)
(* with an owner other than P is INVALID whatever the scores are, and      *)
(* creates or changes no mapping row.                                      *)
C3_ForeignLabel ==
    (/\ Recognized
     /\ last.lookup = "found"
     /\ \E i \in GetByLabel(last.label) : i.participantID # last.pid) =>
        /\ last.status = "INVALID"
        /\ \A row \in Entries(last) : row.status = "INVALID"
        /\ "fr_identities" \notin last.wrote
        /\ \A i \in GetByLabel(last.label) : i.participantID # last.pid

(* The label of another participant, presented with passing scores *)
C3_Witness ==
    /\ Recognized
    /\ last.lookup = "found"
    /\ \E i \in GetByLabel(last.label) : i.participantID # last.pid
    /\ last.similarity = {SimilarityThreshold}
    /\ last.distance = {DistanceThreshold}
    /\ last.status = "INVALID"

(* C4: no Verify records or returns VALID for participant P while the     *)
(* recognized label is mapped to a participant other than P, requests      *)
(* interleaving freely.  No step removes or changes a mapping row, so a   *)
(* foreign owner seen once the call has returned was the owner when the    *)
(* ledger entry was written.                                               *)
C4_NoValidOnForeignLabel ==
    (Recognized /\ last.status = "VALID") =>
        \A i \in GetByLabel(last.label) : i.participantID = last.pid

C6_FailureOrRecord ==
    /\ last.op = "Verify" =>
          /\ last.recognizeCalls <= 1
          /\ last.err # "" => (last.status = "" /\ Entries(last) = {})
          /\ last.err = "" =>
                /\ last.status \in {"VALID", "INVALID", "REVIEW"}
                /\ Cardinality(Entries(last)) = 1
                /\ \A row \in Entries(last) :
                      /\ row.status = last.status
                      /\ row.participantID = last.pid
    /\ \A r \in Reqs :
          /\ req[r].recognizeCalls <= 1
          /\ Entries(req[r]) = {}
    /\ Cardinality(ledger) <= attempts

(* An error of the Recognition Port after an attempt that was recorded *)
C6_Witness ==
    /\ last.op = "Verify"
    /\ last.err = "frcore recognize"
    /\ last.recognizeCalls = 1
    /\ last.attempt = 2
    /\ Cardinality(ledger) = 1

(* C7: of two concurrent Verify calls of one participant P that both saw   *)
(* the same unseen label with passing scores, neither fails on the         *)
(* duplicate insert: the call that did not create the row returns VALID as *)
(* does the one that did, and the label has exactly one row, owned by P.   *)
C7_SameParticipantRace ==
    (/\ last.op = "Verify"
     /\ last.pc = "done"
     /\ last.lookup = "unseen"
     /\ \A x \in last.similarity : x >= SimilarityThreshold
     /\ \A d \in last.distance : d <= DistanceThreshold
     /\ \E i \in GetByLabel(last.label) : i.participantID = last.pid) =>
        /\ last.err = ""
        /\ last.status = "VALID"
        /\ \E row \in Entries(last) : row.status = "VALID"
        /\ Cardinality(GetByLabel(last.label)) = 1

(* Both calls have returned VALID; the last one found the row in place *)
C7_Witness ==
    /\ last.op = "Verify"
    /\ last.lookup = "unseen"
    /\ "fr_identities" \notin last.wrote
    /\ last.status = "VALID"
    /\ Cardinality(ledger) = 2
    /\ \A row \in ledger : row.participantID = last.pid /\ row.status = "VALID"
    /\ \A i \in GetByLabel(last.label) : i.participantID = last.pid
    /\ Cardinality(GetByLabel(last.label)) = 1

----------------------------------------------------------------------------
(* Properties of Register and of the label mapping *)

(* C8: a Register call with valid inputs whose national ID is the          *)
(* national ID of a participant registered before fails with the conflict  *)
(* ErrParticipantExists, without a call of UploadFace and without a write  *)
(* to the stores.                                                          *)
C8_DuplicateNationalID ==
    (/\ last.op = "Register"
     /\ req[1].pc = "idle"
     /\ last.err \notin {"nik is required", "name is required", "image is required"}
     /\ \E p \in participants : p.nik = TrimSpace(last.nik) /\ p.id # last.pid) =>
        /\ last.err = "ErrParticipantExists"
        /\ last.uploadCalls = 0
        /\ last.wrote = {}

(* C9: once the Register call of a participant has returned, the           *)
(* participant row and a mapping row owned by the participant exist        *)
(* together or not at all.                                                 *)
C9_RegisterAtomic ==
    /\ \A p \in participants :
          (\A r \in Reqs : ~(req[r].op = "Register" /\ req[r].pid = p.id)) =>
              \E i \in frIdentities : i.participantID = p.id
    /\ \A i \in frIdentities : \E p \in participants : p.id = i.participantID

(* C10: a label never has two rows in fr_identities, and a Create for a    *)
(* label that has a row, by Register or by Verify, returns no error and    *)
(* leaves the table as it was.                                             *)
C10_OneOwnerPerLabel ==
    /\ [](\A i, j \in frIdentities : i.label = j.label => i = j)
    /\ [][\A r \in Reqs :
            /\ (/\ req[r].pc = "r_identity"
                /\ req'[r].pc # "r_identity"
                /\ GetByLabel(req[r].frRef) # {}) =>
                   /\ frIdentities' = frIdentities
                   /\ last'.pid = req[r].pid
                   /\ last'.err = ""
            /\ (/\ req[r].pc = "v_alias"
                /\ req'[r].pc # "v_alias"
                /\ GetByLabel(req[r].label) # {}) =>
                   /\ frIdentities' = frIdentities
                   /\ req'[r].pc = "v_record"
                   /\ req'[r].err = ""]_vars

(* A registration whose label was bound to another participant before: it *)
(* succeeds and the row still names the other participant.                 *)
C10_Witness ==
    /\ last.op = "Register"
    /\ last.err = ""
    /\ "participants" \in last.wrote
    /\ "fr_identities" \notin last.wrote
    /\ \E i \in GetByLabel(last.frRef) : i.participantID # last.pid
    /\ Cardinality(GetByLabel(last.frRef)) = 1

----------------------------------------------------------------------------
(* Properties of the administration of participants *)

(* C11: in every interleaving of Register, Update and Delete no two        *)
(* participants share a national ID (compared as stored and as trimmed),   *)
(* a bound biometric label or an external reference.                       *)
C11_ParticipantsUnique ==
    \A p, q \in participants :
        p # q =>
            /\ p.id # q.id
            /\ p.nik # q.nik
            /\ TrimSpace(p.nik) # TrimSpace(q.nik)
            /\ p.frLabel # q.frLabel
            /\ p.frExternalRef # q.frExternalRef

(* Two participants, and an Update that passed its own check of the        *)
(* national ID and was rejected by the unique index                        *)
C11_Witness ==
    /\ Cardinality(participants) = 2
    /\ last.op = "Update"
    /\ last.err = "update participant: duplicate key"

(* C12: once Delete(P) has returned success the participant P is gone,    *)
(* the ledger holds no attempt of P and the mapping holds no label of P;   *)
(* Delete of a participant that does not exist fails with not-found and    *)
(* has written nothing.  Requests are issued one at a time.                *)
C12_DeleteCascade ==
    (last.op = "Delete" /\ req[1].pc = "idle") =>
        /\ last.err \in {"", "ErrParticipantNotFound"}
        /\ GetByID(last.pid) = {}
        /\ last.err = "" =>
              /\ "participants" \in last.wrote
              /\ \A c \in ledger : c.participantID # last.pid
              /\ \A i \in frIdentities : i.participantID # last.pid
        /\ last.err = "ErrParticipantNotFound" => last.wrote = {}

(* A Delete that removed attempts, labels and the participant, while the   *)
(* other participant keeps an attempt and a label                          *)
C12_Witness ==
    /\ last.op = "Delete"
    /\ req[1].pc = "idle"
    /\ last.err = ""
    /\ last.wrote = {"life_certificate", "fr_identities", "participants"}
    /\ \E c \in ledger : c.participantID # last.pid
    /\ \E i \in frIdentities : i.participantID # last.pid

----------------------------------------------------------------------------
(* Properties of LatestStatus and of the ledger *)

(* C13: LatestStatus of a participant that does not exist fails with       *)
(* not-found; LatestStatus of a participant without a ledger entry         *)
(* succeeds with an absent status, distance, similarity and verifiedAt.    *)
C13_StatusWithoutAttempt ==
    (last.op = "LatestStatus" /\ req[1].pc = "idle" /\ last.pid # <<>>) =>
        /\ GetByID(last.pid) = {} =>
              /\ last.err = "ErrParticipantNotFound"
              /\ last.status = ""
        /\ (/\ GetByID(last.pid) # {}
            /\ \A c \in ledger : c.participantID # last.pid) =>
              /\ last.err = ""
              /\ last.status = ""
              /\ last.distance = {}
              /\ last.similarity = {}
              /\ last.verifiedAt = {}

(* A participant without attempts, next to one that has an attempt *)
C13_Witness ==
    /\ last.op = "LatestStatus"
    /\ req[1].pc = "idle"
    /\ last.err = ""
    /\ last.status = ""
    /\ GetByID(last.pid) # {}
    /\ ledger # {}
    /\ \A c \in ledger : c.participantID # last.pid

(* C14: with no request in flight, LatestStatus(P) returns the status,     *)
(* distance and similarity of the attempt of P whose ledger entry was      *)
(* recorded last.  Stated for attempts of distinct timestamps, so that     *)
(* the order of rows of equal verified_at plays no part.                   *)
C14_LatestIsLastRecorded ==
    (/\ last.op = "LatestStatus"
     /\ last.err = ""
     /\ \A r \in Reqs : req[r].pc = "idle"
     /\ \A c, d \in ledger :
           (c.participantID = last.pid /\ d.participantID = last.pid /\ c # d)
               => c.verifiedAt # d.verifiedAt) =>
        \A c \in ledger :
            (/\ c.participantID = last.pid
             /\ \A d \in ledger : d.participantID = last.pid => d.seq <= c.seq) =>
                /\ last.status = c.status
                /\ last.distance = c.distance
                /\ last.similarity = c.similarity

C16_LedgerAppendOnly ==
    [][\A c \in ledger :
          \/ c \in ledger'
          \/ /\ \A d \in ledger' : d.id # c.id
             /\ \E r \in Reqs : /\ req[r].op = "Delete"
                                /\ req[r].pc = "d_certificates"
                                /\ req[r].pid = c.participantID
                                /\ req'[r].pc = "d_identities"]_vars

(* A Delete has removed the attempts of its participant; the attempt of    *)
(* the other participant is in the ledger.                                 *)
C16_Witness ==
    /\ \E r \in Reqs : /\ req[r].op = "Delete"
                       /\ req[r].pc = "d_identities"
                       /\ "life_certificate" \in req[r].wrote
                       /\ \E c \in ledger : c.participantID # req[r].pid
    /\ Cardinality(ledger) = 1

----------------------------------------------------------------------------
(* Properties of Register, continued *)

(* C17: after a successful Register the participant row, the mapping row   *)
(* and the RegisterOutput carry the label and the external reference of    *)
(* the UploadResponse where it has them, and the requested candidate label *)
(* and participant id where it has neither label nor id, respectively no   *)
(* external reference.                                                     *)
C17_RemoteAuthoritative ==
    (last.op = "Register" /\ last.err = "" /\ req[1].pc = "idle") =>
        \A resp \in last.uploaded :
            LET n == CHOOSE k \in 1..MaxRegister : Pid(k) = last.pid
                label == IF resp.Label \notin {<<>>, <<" ">>} THEN resp.Label
                         ELSE IF resp.ID \notin {<<>>, <<" ">>} THEN resp.ID
                         ELSE CandidateLabel(n)
                externalRef == IF resp.ExternalRef \notin {<<>>, <<" ">>}
                               THEN resp.ExternalRef ELSE last.pid
            IN
            /\ last.frRef = label
            /\ last.frExternal = externalRef
            /\ \E p \in participants : /\ p.id = last.pid
                                       /\ p.frLabel = label
                                       /\ p.frExternalRef = externalRef
            /\ \E i \in frIdentities : /\ i.label = label
                                       /\ i.participantID = last.pid
                                       /\ i.externalRef = externalRef

(* C18: Register with a blank national ID, a blank name or an empty        *)
(* image, and Verify with an empty image or for a participant that does    *)
(* not exist, return a failure, having called neither port and written no  *)
(* row.                                                                    *)
C18_FailBeforeSideEffects ==
    (/\ req[1].pc = "idle"
     /\ \/ /\ last.op = "Register"
           /\ \/ last.nik \in {<<>>, <<" ">>}
              \/ last.name \in {<<>>, <<" ">>}
              \/ last.image = <<>>
        \/ /\ last.op = "Verify"
           /\ last.image = <<>> \/ GetByID(last.pid) = {}) =>
        /\ last.err # ""
        /\ last.status = ""
        /\ last.livenessCalls = 0
        /\ last.recognizeCalls = 0
        /\ last.uploadCalls = 0
        /\ last.wrote = {}
        /\ last.attempt = 0

(* A Verify for a participant that does not exist, after a registration    *)
(* and a recorded attempt                                                  *)
C18_Witness ==
    /\ req[1].pc = "idle"
    /\ last.op = "Verify"
    /\ last.image # <<>>
    /\ last.pid # <<>>
    /\ GetByID(last.pid) = {}
    /\ last.err = "ErrParticipantNotFound"
    /\ participants # {}
    /\ ledger # {}

----------------------------------------------------------------------------
(* Properties of the disabled liveness checker *)

----------------------------------------------------------------------------
(* Properties of concurrent registrations *)

(* C20: a Register call whose participant insert the store rejected        *)
(* because another participant has the national ID returns the conflict    *)
(* ErrParticipantExists.  Stated for a national ID sent without blanks,    *)
(* for which the existence check of Register reads the stored value: such  *)
(* a call passed the check and reached the insert only in a race.          *)
C20_ConflictSurfaces ==
    (/\ last.op = "Register"
     /\ last.nik = TrimSpace(last.nik)
     /\ last.uploadCalls = 1
     /\ last.err \notin {"", "frcore upload"}
     /\ "participants" \notin last.wrote
     /\ \E p \in participants : p.nik = last.nik /\ p.id # last.pid) =>
        last.err = "ErrParticipantExists"

----------------------------------------------------------------------------
(* Properties of the alias binding *)

(* The Verify call `last` found no mapping of its label and its scores     *)
(* allow a new alias                                                       *)
AliasCase ==
    /\ last.lookup = "unseen"
    /\ \A x \in last.similarity : x >= SimilarityThreshold
    /\ \A d \in last.distance : d <= DistanceThreshold

(* C21: a Verify call by P that got an answer from the Recognition Port    *)
(* has created a mapping row if and only if its label was not found in     *)
(* the mapping, the similarity is at least the similarity threshold and    *)
(* the distance is absent or at most the distance threshold; the row       *)
(* binds the label to P with the external reference of P, and matchLabel   *)
(* is true for the attempt.  Requests are issued one at a time.            *)
C21_AliasIff ==
    (Recognized /\ req[1].pc = "idle") =>
        /\ "fr_identities" \in last.wrote <=> AliasCase
        /\ AliasCase =>
              /\ last.matchLabel
              /\ \E i \in frIdentities, p \in participants :
                    /\ i.label = last.label
                    /\ i.participantID = last.pid
                    /\ p.id = last.pid
                    /\ i.externalRef = p.frExternalRef

----------------------------------------------------------------------------
(* Properties of a failed binding *)

(* C22: a Register call whose UploadFace failed returns a failure and has  *)
(* written neither a participant row nor a mapping row; a participant row  *)
(* exists only for a registration whose UploadFace answered.               *)
C22_UploadFailure ==
    /\ (last.op = "Register" /\ last.err = "frcore upload") =>
          /\ last.wrote = {}
          /\ last.uploaded = {}
          /\ GetByID(last.pid) = {}
          /\ \A i \in frIdentities : i.participantID # last.pid
    /\ (last.op = "Register" /\ GetByID(last.pid) # {}) => last.uploaded # {}
    /\ \A r \in Reqs :
          req[r].op = "Register" =>
              /\ req[r].uploaded = {} =>
                    /\ req[r].wrote = {}
                    /\ GetByID(req[r].pid) = {}
                    /\ \A i \in frIdentities : i.participantID # req[r].pid
              /\ req[r].pc \in {"r_participant", "r_identity"} =>
                    req[r].uploaded # {}

(* The second registration failed at the upload; the first one stands *)
C22_Witness ==
    /\ last.op = "Register"
    /\ last.err = "frcore upload"
    /\ last.uploadCalls = 1
    /\ last.pid = Pid(2)
    /\ Cardinality(participants) = 1
    /\ Cardinality(frIdentities) = 1

----------------------------------------------------------------------------
(* Properties of Update *)

(* C23: in every step of an Update the mapping and the ledger stay as they *)
(* are and every participant keeps its identifier, bound label and         *)
(* external reference; an Update whose new national ID is the national ID  *)
(* of another participant when it is checked fails with the conflict       *)
(* ErrParticipantExists and changes no participant; the write of a         *)
(* successful Update stores the new national ID and name in the row of     *)
(* its participant and leaves every other row as it is.                    *)
C23_UpdateFrame ==
    [][\A r \in Reqs :
          LET moved == req[r].op = "Update" /\ req'[r] # req[r]
              step == \/ moved
                      \/ req[r].pc = "idle" /\ req'[r].op = "Update"
                      \/ req' = req /\ last'.op = "Update"
              taken == \E existing \in participants :
                          /\ existing.nik = NewNIK(req[r])
                          /\ existing.id # req[r].pid
          IN
          /\ step =>
                /\ frIdentities' = frIdentities
                /\ ledger' = ledger
                /\ {[id |-> p.id, frLabel |-> p.frLabel,
                     frExternalRef |-> p.frExternalRef] : p \in participants'}
                     = {[id |-> p.id, frLabel |-> p.frLabel,
                         frExternalRef |-> p.frExternalRef] : p \in participants}
                /\ Cardinality(participants') = Cardinality(participants)
          /\ (step /\ ~(moved /\ req[r].pc = "u_write")) =>
                participants' = participants
          /\ (moved /\ req[r].pc = "u_check" /\ taken) =>
                /\ last'.op = "Update"
                /\ last'.err = "ErrParticipantExists"
          /\ (moved /\ req[r].pc = "u_write") =>
                /\ last'.op = "Update"
                /\ \A p \in participants :
                      p.id # req[r].pid => p \in participants'
                /\ last'.err # "" => participants' = participants
                /\ last'.err = "" =>
                      \A p \in participants' :
                          p.id = req[r].pid =>
                              /\ p.nik = NewNIK(req[r])
                              /\ p.name = NewName(req[r])]_vars

(* An Update has changed the national ID and the name of one of two        *)
(* participants                                                            *)
C23_Witness ==
    /\ last.op = "Update"
    /\ last.err = ""
    /\ "participants" \in last.wrote
    /\ Cardinality(participants) = 2
    /\ \E p \in participants, old \in last.row :
          /\ p.id = last.pid
          /\ p.nik # old.nik
          /\ p.name # old.name
          /\ p.frLabel = old.frLabel
    /\ \A p \in participants : \E i \in frIdentities : i.participantID = p.id

----------------------------------------------------------------------------
(* Properties of the VerifyOutput *)

(* C24: a Verify call that returns a status left exactly one ledger entry  *)
(* of the attempt, and the status, distance, similarity and timestamp it   *)
(* returns are those of the entry; the distance and the similarity are     *)
(* the values of the RecognizeResponse, and absent when the Recognition    *)
(* Port was not called.                                                    *)
C24_ReturnedIsPersisted ==
    (last.op = "Verify" /\ last.err = "") =>
        /\ Cardinality(Entries(last)) = 1
        /\ \A row \in Entries(last) :
              /\ row.participantID = last.pid
              /\ row.status = last.status
              /\ row.distance = last.distance
              /\ row.similarity = last.similarity
              /\ row.verifiedAt = last.now
              /\ \A resp \in last.recognized :
                    /\ row.distance = resp.Distance
                    /\ row.similarity = {resp.Similarity}
              /\ last.recognizeCalls = 0 =>
                    row.distance = {} /\ row.similarity = {}
        /\ last.recognizeCalls = 1 <=> last.recognized # {}

(* The second attempt, at a later time, with scores beside the thresholds *)
C24_Witness ==
    /\ last.op = "Verify"
    /\ last.err = ""
    /\ last.now = MaxClock
    /\ last.distance = {DistanceThreshold + 1}
    /\ last.similarity = {SimilarityThreshold - 1}
    /\ Cardinality(ledger) = 2
    /\ \E row \in ledger : row.verifiedAt < last.now

----------------------------------------------------------------------------
(* Properties of a failed Verify *)

(* C25: a Verify call that returns a failure has created no ledger entry   *)
(* and no mapping row: the mapping holds no alias that the call created.   *)
C25_FailureLeavesStores ==
    (last.op = "Verify" /\ last.err # "") =>
        /\ Entries(last) = {}
        /\ last.wrote = {}
        /\ last.lookup = "unseen" =>
              \A i \in GetByLabel(last.label) : i.participantID # last.pid

----------------------------------------------------------------------------
(* Properties of the bound label *)

(* C26: for every participant P whose registration has returned, the       *)
(* mapping binds the label stored in the row of P to P.                    *)
C26_OwnLabelBound ==
    \A p \in participants :
        (\A r \in Reqs : req[r].op = "Register" => req[r].pid # p.id) =>
            /\ GetByLabel(p.frLabel) # {}
            /\ \A i \in GetByLabel(p.frLabel) : i.participantID = p.id

----------------------------------------------------------------------------
(* Properties of the references to participants *)

(* C27: a Verify for P that returns a status after Delete(P) has removed   *)
(* the participant leaves no ledger entry and no mapping row that names    *)
(* P: every row it wrote names a participant that exists.                  *)
C27_VerifyOutlivesDelete ==
    (last.op = "Verify" /\ last.err = "" /\ GetByID(last.pid) = {}) =>
        /\ \A c \in ledger : c.participantID # last.pid
        /\ \A i \in frIdentities : i.participantID # last.pid

----------------------------------------------------------------------------
(* Properties of the alias binding, continued *)

(* C28: a Verify call that created a mapping row computes the status       *)
(* VALID: the call that is about to record decides VALID, the call that    *)
(* returned a status returned and recorded VALID, and no call that         *)
(* returned INVALID or REVIEW created a mapping row.                       *)
C28_AliasIsValid ==
    /\ \A r \in Reqs :
          (req[r].op = "Verify" /\ "fr_identities" \in req[r].wrote) =>
              /\ req[r].pc = "v_record"
              /\ \A x \in req[r].similarity :
                    Decide(req[r].matchLabel, x, req[r].distance) = "VALID"
    /\ (last.op = "Verify" /\ last.err = "" /\ "fr_identities" \in last.wrote) =>
          /\ last.status = "VALID"
          /\ \A row \in Entries(last) : row.status = "VALID"
    /\ (last.op = "Verify" /\ last.status \in {"INVALID", "REVIEW"}) =>
          "fr_identities" \notin last.wrote

(* An alias created with both scores exactly at the thresholds *)
C28_Witness ==
    /\ last.op = "Verify"
    /\ last.err = ""
    /\ "fr_identities" \in last.wrote
    /\ last.similarity = {SimilarityThreshold}
    /\ last.distance = {DistanceThreshold}
    /\ last.status = "VALID"
    /\ \E i \in GetByLabel(last.label) : i.participantID = last.pid

----------------------------------------------------------------------------
(* Properties of the national ID *)

(* C29: the duplicate check of Register compares the national ID as it is  *)
(* persisted, trimmed: no Register call reaches UploadFace while a         *)
(* participant has its trimmed national ID, and a call sent with blanks    *)
(* around the national ID of a participant returns the conflict            *)
(* ErrParticipantExists.  Requests are issued one at a time.               *)
C29_NormalisedDuplicateCheck ==
    /\ \A r \in Reqs :
          (req[r].op = "Register" /\ req[r].pc = "r_upload") =>
              \A p \in participants : p.nik # TrimSpace(req[r].nik)
    /\ (/\ last.op = "Register"
        /\ req[1].pc = "idle"
        /\ last.nik # TrimSpace(last.nik)
        /\ TrimSpace(last.name) # <<>>
        /\ last.image # <<>>
        /\ \E p \in participants : p.nik = TrimSpace(last.nik) /\ p.id # last.pid) =>
          last.err = "ErrParticipantExists"

----------------------------------------------------------------------------
(* Properties of the ownership of labels *)

(* C30: in every step every mapping row stays as it is, owner and external *)
(* reference included, or its label loses its row in the                   *)
(* DeleteByParticipantID of a Delete of its owner; no step of Register or  *)
(* Verify removes a row or gives a label another owner.                    *)
C30_LabelOwnershipStable ==
    [][\A i \in frIdentities :
          \/ i \in frIdentities'
          \/ /\ \A j \in frIdentities' : j.label # i.label
             /\ \E r \in Reqs : /\ req[r].op = "Delete"
                                /\ req[r].pc = "d_identities"
                                /\ req[r].pid = i.participantID
                                /\ req'[r].pc = "d_participant"]_vars

(* A Verify call went through the alias branch for a label that another    *)
(* participant had bound in the meantime; the row names the other          *)
(* participant.                                                            *)
C30_Witness ==
    /\ last.op = "Verify"
    /\ last.err = ""
    /\ last.lookup = "unseen"
    /\ "fr_identities" \notin last.wrote
    /\ Cardinality(GetByLabel(last.label)) = 1
    /\ \E i \in GetByLabel(last.label) : i.participantID # last.pid

====
